---- MODULE Spec2Model ----
(***************************************************************************)
(* StencilDetection (dace/transformation/dataflow/stencil_detection.py):   *)
(* the eligibility test can_be_applied, the rewrite apply, and the         *)
(* apply-then-rescan loop of the transformation pass manager around them.  *)
(***************************************************************************)
EXTENDS Integers, Sequences, FiniteSets, TLC

VARIABLES nodes, edges, phase, verdict, rewrites, runs, last, scopes0

vars == <<nodes, edges, phase, verdict, rewrites, runs, last, scopes0>>

(***************************************************************************)
(* Bounds of the model.                                                    *)
(***************************************************************************)
\* largest additive constant of a neighbourhood access (i - MaxOff .. i + MaxOff)
MaxOff == 1
\* largest number of neighbourhood accesses entering one tasklet
MaxIn == 3
\* largest lower bound of a map range
MaxLo == 1
\* number of times the pass is run again after reaching its fixed point
MaxRuns == 1
\* extent of the non-singleton arrays (the symbol N of the shapes)
N == 4

(***************************************************************************)
(* Index expressions.  sympy keeps every expression in canonical form, so  *)
(* an expression over the symbols i and j is modelled by its polynomial    *)
(*     ci*i + cj*j + cii*i*i + cij*i*j + c                                 *)
(* and the sympy class of the expression is read off the polynomial.       *)
(***************************************************************************)
Poly(ci, cj, cii, cij, c) == [ci |-> ci, cj |-> cj, cii |-> cii, cij |-> cij, c |-> c]

Const(c) == Poly(0, 0, 0, 0, c)

\* dace.symbol(p)
Sym(p) == IF p = "i" THEN Poly(1, 0, 0, 0, 0) ELSE Poly(0, 1, 0, 0, 0)

PAdd(e, f) == Poly(e.ci + f.ci, e.cj + f.cj, e.cii + f.cii, e.cij + f.cij, e.c + f.c)

PSub(e, f) == Poly(e.ci - f.ci, e.cj - f.cj, e.cii - f.cii, e.cij - f.cij, e.c - f.c)

\* expr.free_symbols
free_symbols(e) ==
    (IF e.ci # 0 \/ e.cii # 0 \/ e.cij # 0 THEN {"i"} ELSE {})
    \cup (IF e.cj # 0 \/ e.cij # 0 THEN {"j"} ELSE {})

\* number of monomials with a non-zero coefficient
NTerms(e) ==
    (IF e.ci # 0 THEN 1 ELSE 0) + (IF e.cj # 0 THEN 1 ELSE 0)
    + (IF e.cii # 0 THEN 1 ELSE 0) + (IF e.cij # 0 THEN 1 ELSE 0)

\* the class sympy gives the canonical expression: what isinstance() sees
SympyType(e) ==
    IF NTerms(e) = 0 THEN "Integer"
    ELSE IF e.c # 0 \/ NTerms(e) > 1 THEN "Add"
    ELSE IF e.ci = 1 \/ e.cj = 1 THEN "Symbol"
    ELSE IF e.cii = 1 THEN "Pow"
    ELSE "Mul"

\* isinstance(idx, Number)
IsNumber(e) == SympyType(e) = "Integer"

\* expr.subs(p, v) for an integer v
Subs(e, p, v) ==
    IF p = "i"
    THEN Poly(0, e.cj + e.cij * v, 0, 0, e.c + e.ci * v + e.cii * v * v)
    ELSE Poly(e.ci + e.cij * v, 0, e.cii, 0, e.c + e.cj * v)

(***************************************************************************)
(* Subsets.  A Range dimension is (rb, rb + w, 1): w = 0 is a point, w > 0 *)
(* covers several elements, w = -1 is the empty interval.  An Indices      *)
(* subset has one expression per dimension (w = 0).                        *)
(***************************************************************************)
Dim(e, w) == [rb |-> e, w |-> w]

Range(dims) == [kind |-> "Range", dims |-> dims]

Indices(dims) == [kind |-> "Indices", dims |-> dims]

\* the subset of an empty memlet (None)
NoSubset == [kind |-> "None", dims |-> <<>>]

RECURSIVE ProdSizes(_)
ProdSizes(dims) ==
    IF dims = <<>> THEN 1 ELSE (Head(dims).w + 1) * ProdSizes(Tail(dims))

\* subset.num_elements()
num_elements(s) == IF s.kind = "Indices" THEN 1 ELSE ProdSizes(s.dims)

\* subset.min_element()
min_element(s) == [k \in 1..Len(s.dims) |-> s.dims[k].rb]

\* new_access.offset(first_access, True): subtract the other's minimum element
offset(s, other) ==
    [s EXCEPT !.dims = [k \in 1..Len(s.dims) |->
        [s.dims[k] EXCEPT !.rb = PSub(s.dims[k].rb, min_element(other)[k])]]]

RECURSIVE SubsAll(_, _, _)
\* expr.subs(rdict): every parameter replaced by its integer
SubsAll(e, params, rdict) ==
    IF params = <<>> THEN e
    ELSE SubsAll(Subs(e, Head(params), rdict[Head(params)]), Tail(params), rdict)

\* subset.replace(rdict)
replace(s, params, rdict) ==
    [s EXCEPT !.dims = [k \in 1..Len(s.dims) |->
        [s.dims[k] EXCEPT !.rb = SubsAll(s.dims[k].rb, params, rdict)]]]

(***************************************************************************)
(* Data descriptors: sdfg.arrays.  A and B have equal descriptors.         *)
(***************************************************************************)
Desc(kind, shape) == [kind |-> kind, shape |-> shape]

arrays ==
    [d \in {"A", "B", "V", "M", "S", "T", "U", "Q", "X", "Y"} |->
        CASE d \in {"A", "B", "X", "Y"} -> Desc("Array", <<N>>)
          [] d = "V" -> Desc("View", <<N>>)
          [] d = "M" -> Desc("Array", <<N, N>>)
          [] d = "S" -> Desc("Scalar", <<1>>)
          [] d = "T" -> Desc("Array", <<1>>)
          [] d = "U" -> Desc("Array", <<1, 1>>)
          [] OTHER -> Desc("Stream", <<1>>)]

\* Memlet.from_array(d, desc): the whole container
from_array(d) ==
    [data |-> d,
     subset |-> Range([k \in 1..Len(arrays[d].shape) |-> Dim(Const(0), arrays[d].shape[k] - 1)]),
     wcr |-> FALSE]

\* Memlet(): the empty memlet
EmptyMemlet == [data |-> "None", subset |-> NoSubset, wcr |-> FALSE]

(***************************************************************************)
(* The state (dace.SDFGState): nodes by id and the list of edges in the    *)
(* order they were added, which is the order in_edges/out_edges list them. *)
(***************************************************************************)
NoConn == [pre |-> "", name |-> ""]

Conn(pre, name) == [pre |-> pre, name |-> name]

Node(id, type, data, scope) ==
    [id |-> id, type |-> type, data |-> data, scope |-> scope,
     label |-> [name |-> "", suffix |-> ""],
     params |-> <<>>, range |-> <<>>, code |-> <<>>, itmapping |-> <<>>,
     boundary |-> <<>>]

Edge(src, src_conn, dst, dst_conn, m) ==
    [src |-> src, src_conn |-> src_conn, dst |-> dst, dst_conn |-> dst_conn,
     data |-> m]

\* graph.out_edges(n)
out_edges(Ed, n) == SelectSeq(Ed, LAMBDA e : e.src = n)

\* graph.in_edges(n)
in_edges(Ed, n) == SelectSeq(Ed, LAMBDA e : e.dst = n)

\* graph.scope_subgraph(map_entry).nodes(): the entry, what it encloses, its exit
scope_subgraph(Nd, entry) ==
    {n \in DOMAIN Nd : n = entry \/ Nd[n].scope = entry}

\* state.exit_node(map_entry)
exit_node(Nd, entry) ==
    CHOOSE n \in DOMAIN Nd : Nd[n].type = "MapExit" /\ Nd[n].scope = entry

SeqToSet(s) == {s[k] : k \in 1..Len(s)}

(***************************************************************************)
(* StencilDetection.can_be_applied.  Every early exit of the function is   *)
(* "return False", so the verdict is: no check rejects, and stencil_found. *)
(***************************************************************************)
\* lines 80-94 and 112-126: the per-dimension classification and the
\* coverage of the map parameters by one access
IndicesRejected(a, params) ==
    LET indices == min_element(a)
        bad(idx) ==
            /\ SympyType(idx) # "Symbol"
            /\ ~(SympyType(idx) = "Add" /\ Cardinality(free_symbols(idx)) = 1)
        bidx == UNION {free_symbols(indices[k]) : k \in 1..Len(indices)}
    IN  \/ \E k \in 1..Len(indices) : bad(indices[k])
        \/ SeqToSet(params) \ bidx # {}

\* lines 70-77: some dimension of a - first_access is not a number
OffsetRejected(a, first_access) ==
    LET idx == min_element(offset(a, first_access))
    IN  \E k \in 1..Len(idx) : ~IsNumber(idx[k])

\* lines 76-77: some dimension of a - first_access is a non-zero number
OffsetNonZero(a, first_access) ==
    LET idx == min_element(offset(a, first_access))
    IN  \E k \in 1..Len(idx) : IsNumber(idx[k]) /\ idx[k].c # 0

\* lines 50-57: the subsets leaving the map entry, grouped by descriptor
InputAccesses(Ed, map_entry, desc) ==
    LET ms == SelectSeq(out_edges(Ed, map_entry),
                        LAMBDA e : e.data.data # "None" /\ arrays[e.data.data] = desc)
    IN  [k \in 1..Len(ms) |-> ms[k].data.subset]

InputDescs(Ed, map_entry) ==
    {arrays[e.data.data] : e \in {x \in SeqToSet(out_edges(Ed, map_entry)) : x.data.data # "None"}}

\* lines 61-65: the descriptors whose accesses are not looked at
InputSkipped(desc) ==
    \/ desc.kind = "Scalar"
    \/ desc.kind \in {"Array", "View"} /\ desc.shape = <<1>>

\* lines 60-96 for one descriptor: some access makes the function return False
InputRejected(desc, accesses, params) ==
    /\ ~InputSkipped(desc)
    /\ \/ desc.kind \notin {"Array", "View"}
       \/ \E k \in 1..Len(accesses) :
            \/ num_elements(accesses[k]) # 1
            \/ k > 1 /\ OffsetRejected(accesses[k], accesses[1])
            \/ IndicesRejected(accesses[k], params)

\* lines 66-79 for one descriptor: stencil_found is set
InputStencil(desc, accesses) ==
    /\ ~InputSkipped(desc)
    /\ desc.kind \in {"Array", "View"}
    /\ \E k \in 2..Len(accesses) : OffsetNonZero(accesses[k], accesses[1])

\* lines 98-105: the subsets entering the map exit, grouped by descriptor
OutputAccesses(Ed, map_exit, desc) ==
    LET ms == SelectSeq(in_edges(Ed, map_exit), LAMBDA e : arrays[e.data.data] = desc)
    IN  [k \in 1..Len(ms) |-> ms[k].data.subset]

OutputDescs(Ed, map_exit) ==
    {arrays[e.data.data] : e \in SeqToSet(in_edges(Ed, map_exit))}

\* lines 107-128 for one descriptor
OutputRejected(desc, accesses, params) ==
    \/ desc.kind \notin {"Array", "View"}
    \/ \E k \in 1..Len(accesses) :
         \/ num_elements(accesses[k]) > 1
         \/ IndicesRejected(accesses[k], params)

\* a check that lets every conflict resolution pass
WcrRejected_ignored(m) == FALSE

\* lines 100-101
WcrRejected(m) == m.wcr

can_be_applied(Nd, Ed, map_entry) ==
    LET map_exit == exit_node(Nd, map_entry)
        params == Nd[map_entry].params
    IN  /\ ~(Cardinality(scope_subgraph(Nd, map_entry)) > 3)
        /\ \A desc \in InputDescs(Ed, map_entry) :
              ~InputRejected(desc, InputAccesses(Ed, map_entry, desc), params)
        /\ \A e \in SeqToSet(in_edges(Ed, map_exit)) : ~WcrRejected(e.data)
        /\ \A desc \in OutputDescs(Ed, map_exit) :
              ~OutputRejected(desc, OutputAccesses(Ed, map_exit, desc), params)
        /\ \E desc \in InputDescs(Ed, map_entry) :
              InputStencil(desc, InputAccesses(Ed, map_entry, desc))

(***************************************************************************)
(* StencilDetection.apply.  The result is the graph the call leaves behind *)
(* and how the call ended: "completed", or the exception that ended it.    *)
(***************************************************************************)
SetMin(S) == CHOOSE x \in S : \A y \in S : x <= y

SetMax(S) == CHOOSE x \in S : \A y \in S : x >= y

\* lines 143-144
scope_tasklet(Nd, map_entry) ==
    CHOOSE n \in scope_subgraph(Nd, map_entry) : Nd[n].type = "Tasklet"

\* line 163: the assertion fails on some dimension of some Range leaving the tasklet
AssertionFails(touts, params) ==
    /\ Len(params) > 0
    /\ \E k \in 1..Len(touts) :
         /\ touts[k].data.subset.kind = "Range"
         /\ \E d \in 1..Len(touts[k].data.subset.dims) : touts[k].data.subset.dims[d].w # 0

\* lines 158-181: the integers the output accesses mentioning p give at p = r[0]
OffsetValues(touts, p, lo) ==
    UNION {
        {Subs(touts[k].data.subset.dims[d].rb, p, lo).c :
            d \in {x \in 1..Len(touts[k].data.subset.dims) :
                    /\ p \in free_symbols(touts[k].data.subset.dims[x].rb)
                    /\ IsNumber(Subs(touts[k].data.subset.dims[x].rb, p, lo))}} :
        k \in {x \in 1..Len(touts) : touts[x].data.subset.kind \in {"Range", "Indices"}}}

\* the offsets taken at the upper bound of the iteration range
Offsets_upper(touts, params, range) ==
    [k \in 1..Len(params) |->
        LET values == OffsetValues(touts, params[k], range[k][2])
        IN  IF values = {} THEN [has |-> FALSE, v |-> 0]
            ELSE [has |-> TRUE, v |-> SetMin(values)]]

\* lines 154-183: offsets[i], None modelled as has = FALSE
Offsets(touts, params, range) ==
    [k \in 1..Len(params) |->
        LET values == OffsetValues(touts, params[k], range[k][1])
        IN  IF values = {} THEN [has |-> FALSE, v |-> 0]
            ELSE [has |-> TRUE, v |-> SetMin(values)]]

\* lines 186-193: the replacement dictionary
Rdict(offsets, params, range) ==
    [p \in SeqToSet(params) |->
        LET k == CHOOSE x \in 1..Len(params) : params[x] = p
        IN  IF offsets[k].has /\ offsets[k].v # 0
            THEN range[k][1] - offsets[k].v
            ELSE range[k][1]]

\* position of the first edge of es that carries no subset, 0 if there is none
FirstNoSubset(es) ==
    IF \E k \in 1..Len(es) : es[k].data.subset.kind = "None"
    THEN SetMin({k \in 1..Len(es) : es[k].data.subset.kind = "None"})
    ELSE 0

\* lines 206 and 219: e.data.subset.replace(rdict) on the first `count` edges
\* among those at the positions pos, in place in the graph
ReplaceSubsets(Ed, pos, count, params, rdict) ==
    [q \in 1..Len(Ed) |->
        IF q \in pos /\ Cardinality({x \in pos : x <= q}) <= count
        THEN [Ed[q] EXCEPT !.data.subset = replace(Ed[q].data.subset, params, rdict)]
        ELSE Ed[q]]

\* f'__{e.data.data}'
StencilConn(d) == Conn("__", d)

IsArrayLike(d) == arrays[d].kind \in {"Array", "View"}

\* lines 212-216 and 225-229: what a port of the tasklet is renamed to
Reference(e) ==
    [conn |-> StencilConn(e.data.data),
     indexed |-> IsArrayLike(e.data.data),
     subset |-> IF IsArrayLike(e.data.data) THEN e.data.subset ELSE NoSubset]

\* the last element of a sequence among the positions pos
LastWith(es, pos) == es[SetMax(pos)]

RECURSIVE DataOrder(_)
\* the keys of in_data / out_data in insertion order
DataOrder(es) ==
    IF es = <<>> THEN <<>>
    ELSE LET rest == DataOrder(SubSeq(es, 1, Len(es) - 1))
             d == es[Len(es)].data.data
         IN  IF d \in SeqToSet(rest) THEN rest ELSE Append(rest, d)

\* lines 205-246: the Stencil library node
StencilNode(id, entryNode, tins, touts) ==
    LET ports == {tins[k].dst_conn : k \in 1..Len(tins)}
                 \cup {touts[k].src_conn : k \in 1..Len(touts)}
        in_conns == {StencilConn(tins[k].data.data) : k \in 1..Len(tins)}
        out_conns == {StencilConn(touts[k].data.data) : k \in 1..Len(touts)}
        all == tins \o touts
    IN  [id |-> id, type |-> "Stencil", data |-> "None", scope |-> 0,
         label |-> [name |-> entryNode.label.name, suffix |-> "_stencil"],
         params |-> <<>>, range |-> <<>>,
         code |-> [p \in ports |->
                    IF \E k \in 1..Len(touts) : touts[k].src_conn = p
                    THEN Reference(LastWith(touts, {k \in 1..Len(touts) : touts[k].src_conn = p}))
                    ELSE Reference(LastWith(tins, {k \in 1..Len(tins) : tins[k].dst_conn = p}))],
         itmapping |-> [c \in in_conns \cup out_conns |->
                    [k \in 1..Len(entryNode.params) |->
                        IsArrayLike(LastWith(all, {x \in 1..Len(all) :
                                        StencilConn(all[x].data.data) = c}).data.data)]],
         boundary |-> [c \in out_conns |-> "shrink"]]

\* lines 249-256: for each array of `keys`, the far end of the last listed edge
\* carrying it; has = FALSE when no listed edge carries it
Neighbours(es, keys, far) ==
    [d \in SeqToSet(keys) |->
        IF \E k \in 1..Len(es) : es[k].data.data = d
        THEN [has |-> TRUE, node |-> LastWith(es, {k \in 1..Len(es) : es[k].data.data = d})[far]]
        ELSE [has |-> FALSE, node |-> 0]]

\* the keys before the first one that has no neighbour
RECURSIVE FoundPrefix(_, _)
FoundPrefix(keys, nb) ==
    IF keys = <<>> \/ ~nb[Head(keys)].has THEN <<>>
    ELSE <<Head(keys)>> \o FoundPrefix(Tail(keys), nb)

\* line 258: state.remove_nodes_from(map_scope.nodes()), the ids that stay
remove_nodes_from(Nd, removed) == DOMAIN Nd \ removed

apply(Nd, Ed, map_entry) ==
    LET map_exit == exit_node(Nd, map_entry)
        map_scope == scope_subgraph(Nd, map_entry)
        tasklet == scope_tasklet(Nd, map_entry)
        params == Nd[map_entry].params
        range == Nd[map_entry].range
        touts == out_edges(Ed, tasklet)
        tins == in_edges(Ed, tasklet)
        offsets == Offsets(touts, params, range)
        rdict == Rdict(offsets, params, range)
        isIn == {q \in 1..Len(Ed) : Ed[q].dst = tasklet}
        isOut == {q \in 1..Len(Ed) : Ed[q].src = tasklet}
        badIn == FirstNoSubset(tins)
        badOut == FirstNoSubset(touts)
        Ed1 == ReplaceSubsets(Ed, isIn, IF badIn = 0 THEN Len(tins) ELSE badIn - 1,
                              params, rdict)
        Ed2 == ReplaceSubsets(Ed1, isOut, IF badOut = 0 THEN Len(touts) ELSE badOut - 1,
                              params, rdict)
        sid == SetMax(DOMAIN Nd) + 1
        stencil_node == StencilNode(sid, Nd[map_entry], in_edges(Ed2, tasklet),
                                    out_edges(Ed2, tasklet))
        in_data == DataOrder(tins)
        out_data == DataOrder(touts)
        inputs == Neighbours(in_edges(Ed2, map_entry), in_data, "src")
        outputs == Neighbours(out_edges(Ed2, map_exit), out_data, "dst")
        keptIds == remove_nodes_from(Nd, map_scope) \cup {sid}
        Nd3 == [n \in keptIds |-> IF n = sid THEN stencil_node ELSE Nd[n]]
        Ed3 == SelectSeq(Ed2, LAMBDA e : e.src \in keptIds /\ e.dst \in keptIds)
        inOk == FoundPrefix(in_data, inputs)
        outOk == FoundPrefix(out_data, outputs)
        newIn == [k \in 1..Len(inOk) |->
                    Edge(inputs[inOk[k]].node, NoConn, sid, StencilConn(inOk[k]),
                         from_array(inOk[k]))]
        newOut == [k \in 1..Len(outOk) |->
                    Edge(sid, StencilConn(outOk[k]), outputs[outOk[k]].node, NoConn,
                         from_array(outOk[k]))]
        result(status, N2, E2) ==
            [status |-> status, nodes |-> N2, edges |-> E2, offsets |-> offsets,
             stencil |-> IF status = "completed" THEN sid ELSE 0]
    IN  IF AssertionFails(touts, params) THEN result("AssertionError", Nd, Ed)
        ELSE IF badIn # 0 THEN result("AttributeError", Nd, Ed1)
        ELSE IF badOut # 0 THEN result("AttributeError", Nd, Ed2)
        ELSE IF Len(inOk) < Len(in_data) THEN result("KeyError", Nd3, Ed3 \o newIn)
        ELSE IF Len(outOk) < Len(out_data) THEN result("KeyError", Nd3, Ed3 \o newIn \o newOut)
        ELSE result("completed", Nd3, Ed3 \o newIn \o newOut)

(***************************************************************************)
(* The graphs the pass is run on.  A candidate is one map scope: its       *)
(* parameters and ranges, the memlets entering and leaving its tasklet.    *)
(***************************************************************************)
\* i + k
I(k) == Poly(1, 0, 0, 0, k)

\* a point access of a one-dimensional container, as a Range
At(d, e) == [data |-> d, subset |-> Range(<<Dim(e, 0)>>), wcr |-> FALSE]

\* a point access of a two-dimensional container
At2(d, e, f) == [data |-> d, subset |-> Range(<<Dim(e, 0), Dim(f, 0)>>), wcr |-> FALSE]

\* a one-dimensional Range access (e, e + w, 1)
Span(d, e, w) == [data |-> d, subset |-> Range(<<Dim(e, w)>>), wcr |-> FALSE]

\* a point access given as Indices
AtIdx(d, e) == [data |-> d, subset |-> Indices(<<Dim(e, 0)>>), wcr |-> FALSE]

Wcr(m) == [m EXCEPT !.wcr = TRUE]

Cand(pr, ins, outs) ==
    [params |-> pr.params, range |-> pr.range, ins |-> ins, outs |-> outs,
     extra |-> FALSE, dup |-> "none"]

SeqsUpTo(S, n) == UNION {[1..k -> S] : k \in 0..n}

\* the maps: one or two parameters, ranges [lo, N - 1]
Maps ==
    {[params |-> <<"i">>, range |-> << <<lo, N - 1>> >>] : lo \in 0..MaxLo}
    \cup {[params |-> <<"i", "j">>, range |-> << <<lo, N - 1>>, <<0, N - 1>> >>] : lo \in 0..MaxLo}

\* the index expressions tried: bare, scaled, squared, product, sum, constant,
\* each alone and with an additive constant
Exprs ==
    {PAdd(b, Const(c)) :
        b \in {I(0), Sym("j"), Poly(2, 0, 0, 0, 0), Poly(0, 0, 1, 0, 0),
               Poly(0, 0, 0, 1, 0), Poly(1, 1, 0, 0, 0), Const(0)},
        c \in 0..1}

\* neighbourhood reads of A
NeighbourIns == {At("A", I(k)) : k \in (0 - MaxOff)..MaxOff}

\* arbitrary reads
AnyIns ==
    {At("A", e) : e \in Exprs}
    \cup {At("B", I(0)), At("B", I(1)), At("V", I(0)), At("V", I(1))}
    \cup {At2("M", I(0), Sym("j")), At2("M", I(1), Sym("j")), At2("M", I(0), I(1))}
    \cup {At("S", Const(0)), At("T", Const(0)), At2("U", Const(0), Const(0)),
          At("Q", Const(0)), EmptyMemlet, Span("A", I(0), 1), AtIdx("A", I(1))}

\* arbitrary writes
AnyOuts ==
    {At("B", e) : e \in {I(0), I(1), I(0 - 1), Sym("j"), Poly(2, 0, 0, 0, 1),
                          Poly(0, 0, 1, 0, 1), Poly(0, 0, 0, 1, 0), Const(0)}}
    \cup {Wcr(At("B", I(0))), Wcr(At("B", Poly(0, 0, 0, 1, 0))),
          Span("B", I(0), 1), Span("B", I(0), 0 - 1),
          AtIdx("B", I(1)), At("V", I(1)), At("A", I(0)), At("S", Const(0)),
          At("T", Const(0)),
          At2("M", I(0), Sym("j")), At2("M", I(1), PAdd(Sym("j"), Const(1))),
          At2("M", I(0), I(1))}

\* second writes beside a first one
MoreOuts == {At("V", I(1)), At("B", I(2)), Wcr(At("V", I(0)))}

OutLists ==
    {<<o>> : o \in AnyOuts} \cup {<<o, p>> : o \in {At("B", I(0)), At("B", I(1))}, p \in MoreOuts}

\* up to MaxIn reads around i, written at i or i + 1
NeighbourCands ==
    {Cand(pr, ins, outs) :
        pr \in Maps, ins \in SeqsUpTo(NeighbourIns, MaxIn),
        outs \in {<<At("B", I(0))>>, <<At("V", I(1))>>}}

\* up to two arbitrary reads
PairCands ==
    {Cand(pr, ins, outs) :
        pr \in Maps, ins \in SeqsUpTo(AnyIns, 2),
        outs \in {<<At("B", I(0))>>, <<Wcr(At("B", I(0)))>>, <<At("V", I(1))>>}}

\* a two-point stencil read with an arbitrary read before, between or after
ExtraCands ==
    {Cand(pr, ins, <<At("B", I(0))>>) :
        pr \in Maps,
        ins \in UNION {{<<x, At("A", I(0)), At("A", I(1))>>,
                        <<At("A", I(0)), x, At("A", I(1))>>,
                        <<At("A", I(0)), At("A", I(1)), x>>} : x \in AnyIns}}

\* a two-point stencil read, or a plain one, with arbitrary writes
WriteCands ==
    {Cand(pr, ins, outs) :
        pr \in Maps, ins \in {<<At("A", I(0)), At("A", I(1))>>, <<At("A", I(0)), At("A", I(0))>>},
        outs \in OutLists}

\* the scopes of the graphs that hold two, or that have two access nodes of one array
SmallCands ==
    LET m == [params |-> <<"i">>, range |-> << <<0, N - 1>> >>]
        stencil == Cand(m, <<At("A", I(0 - 1)), At("A", I(1))>>, <<At("B", I(0))>>)
        plain == Cand(m, <<At("A", I(0)), At("A", I(0))>>, <<At("B", I(0))>>)
        inplace == Cand(m, <<At("A", I(0)), At("A", I(1)), At("S", Const(0))>>, <<At("A", I(1))>>)
    IN  {stencil, plain, inplace, [stencil EXCEPT !.extra = TRUE],
         [stencil EXCEPT !.dup = "pred"], [stencil EXCEPT !.dup = "succ"],
         [inplace EXCEPT !.dup = "pred"]}

Candidates == NeighbourCands \cup PairCands \cup ExtraCands \cup WriteCands \cup SmallCands

PortNames == <<"a", "b", "c", "d", "e", "f", "g", "h">>

\* the memlets of ms that carry data, as edge-like records
Carrying(ms) ==
    SelectSeq([k \in 1..Len(ms) |-> [data |-> ms[k]]], LAMBDA e : e.data.data # "None")

\* one map scope with its access nodes, built the way the SDFG API builds it:
\* reads, map entry -> tasklet, tasklet -> map exit, writes
BuildScope(base, c) ==
    LET entry == base + 1
        tasklet == base + 2
        exit == base + 3
        inData == DataOrder(Carrying(c.ins))
        outData == DataOrder(Carrying(c.outs))
        ids == {entry, tasklet, exit}
               \cup (IF c.extra THEN {base + 4} ELSE {})
               \cup {base + 10 + k : k \in 1..Len(inData)}
               \cup (IF c.dup = "pred" /\ inData # <<>> THEN {base + 20} ELSE {})
               \cup {base + 30 + k : k \in 1..Len(outData)}
               \cup (IF c.dup = "succ" /\ outData # <<>> THEN {base + 40} ELSE {})
        node(n) ==
            IF n = entry
            THEN [Node(n, "MapEntry", "None", 0) EXCEPT
                    !.label = [name |-> "map", suffix |-> ""],
                    !.params = c.params, !.range = c.range]
            ELSE IF n = tasklet \/ n = base + 4 THEN Node(n, "Tasklet", "None", entry)
            ELSE IF n = exit THEN Node(n, "MapExit", "None", entry)
            ELSE IF n = base + 20 THEN Node(n, "AccessNode", inData[1], 0)
            ELSE IF n = base + 40 THEN Node(n, "AccessNode", outData[1], 0)
            ELSE IF n > base + 30 THEN Node(n, "AccessNode", outData[n - base - 30], 0)
            ELSE Node(n, "AccessNode", inData[n - base - 10], 0)
        reads == [k \in 1..Len(inData) |->
                    Edge(base + 10 + k, NoConn, entry, Conn("IN", inData[k]), from_array(inData[k]))]
        reads2 == IF c.dup = "pred" /\ inData # <<>>
                  THEN <<Edge(base + 20, NoConn, entry, Conn("IN2", inData[1]), from_array(inData[1]))>>
                  ELSE <<>>
        tin == [k \in 1..Len(c.ins) |->
                    IF c.ins[k].data = "None"
                    THEN Edge(entry, NoConn, tasklet, NoConn, c.ins[k])
                    ELSE Edge(entry, Conn("OUT", c.ins[k].data), tasklet,
                              Conn("in", PortNames[k]), c.ins[k])]
        tout == [k \in 1..Len(c.outs) |->
                    Edge(tasklet, Conn("out", PortNames[k]), exit,
                         Conn("IN", c.outs[k].data), c.outs[k])]
        writes == [k \in 1..Len(outData) |->
                    Edge(exit, Conn("OUT", outData[k]), base + 30 + k, NoConn, from_array(outData[k]))]
        writes2 == IF c.dup = "succ" /\ outData # <<>>
                   THEN <<Edge(exit, Conn("OUT2", outData[1]), base + 40, NoConn, from_array(outData[1]))>>
                   ELSE <<>>
        more == IF c.extra
                THEN <<Edge(entry, Conn("OUT", "A"), base + 4, Conn("in", "a"), At("A", I(0))),
                       Edge(base + 4, Conn("out", "a"), exit, Conn("IN", "V"), At("V", I(0)))>>
                ELSE <<>>
    IN  [nodes |-> [n \in ids |-> node(n)],
         edges |-> reads \o reads2 \o tin \o tout \o writes \o writes2 \o more]

\* a copy X -> Y beside the scopes
Frame ==
    [nodes |-> [n \in {1, 2} |-> Node(n, "AccessNode", IF n = 1 THEN "X" ELSE "Y", 0)],
     edges |-> <<Edge(1, NoConn, 2, NoConn, from_array("X"))>>]

Join(g, h) == [nodes |-> g.nodes @@ h.nodes, edges |-> g.edges \o h.edges]

Graphs ==
    {Join(Frame, BuildScope(100, c)) : c \in Candidates}
    \cup {Join(Join(Frame, BuildScope(100, c)), BuildScope(200, d)) :
            c \in SmallCands, d \in SmallCands}

(***************************************************************************)
(* The pass manager: match, can_be_applied, apply, rescan, until no match  *)
(* is accepted.                                                            *)
(***************************************************************************)
MapEntries(Nd) == {n \in DOMAIN Nd : Nd[n].type = "MapEntry"}

\* expressions(): the path map_entry -> tasklet -> map_exit
Matches(Nd, Ed) ==
    {n \in MapEntries(Nd) :
        \E k, l \in 1..Len(Ed) :
            /\ Ed[k].src = n /\ Nd[Ed[k].dst].type = "Tasklet"
            /\ Ed[l].src = Ed[k].dst /\ Nd[Ed[l].dst].type = "MapExit"}

NoLast ==
    [status |-> "none", entry |-> 0, params |-> <<>>, range |-> <<>>,
     tins |-> <<>>, touts |-> <<>>, offsets |-> <<>>, stencil |-> 0,
     scope |-> {}, nodes |-> <<>>, edges |-> <<>>]

Init ==
    /\ \E g \in Graphs : nodes = g.nodes /\ edges = g.edges
    /\ phase = "scan"
    /\ verdict = [n \in MapEntries(nodes) |-> "unchecked"]
    /\ rewrites = 0
    /\ runs = 0
    /\ last = NoLast
    /\ scopes0 = Cardinality(MapEntries(nodes))

\* the pass manager asks can_be_applied about the next match
Check(s) ==
    /\ phase = "scan"
    /\ s \in Matches(nodes, edges)
    /\ verdict[s] = "unchecked"
    /\ \A n \in DOMAIN verdict : verdict[n] # "True"
    /\ verdict' = [verdict EXCEPT ![s] =
                      IF can_be_applied(nodes, edges, s) THEN "True" ELSE "False"]
    /\ UNCHANGED <<nodes, edges, phase, rewrites, runs, last, scopes0>>

\* the accepted match is rewritten; matching restarts, or the exception ends the pass
Rewrite(s) ==
    /\ phase = "scan"
    /\ s \in DOMAIN verdict
    /\ verdict[s] = "True"
    /\ LET r == apply(nodes, edges, s)
           t == scope_tasklet(nodes, s)
       IN  /\ nodes' = r.nodes
           /\ edges' = r.edges
           /\ last' = [status |-> r.status, entry |-> s, params |-> nodes[s].params,
                       range |-> nodes[s].range, tins |-> in_edges(edges, t),
                       touts |-> out_edges(edges, t), offsets |-> r.offsets,
                       stencil |-> r.stencil, scope |-> scope_subgraph(nodes, s),
                       nodes |-> nodes, edges |-> edges]
           /\ phase' = IF r.status = "completed" THEN "scan" ELSE "failed"
           /\ rewrites' = IF r.status = "completed" THEN rewrites + 1 ELSE rewrites
           /\ verdict' = [n \in MapEntries(r.nodes) |-> "unchecked"]
    /\ UNCHANGED <<runs, scopes0>>

\* no match is accepted: the fixed point
Finish ==
    /\ phase = "scan"
    /\ \A s \in Matches(nodes, edges) : verdict[s] = "False"
    /\ phase' = "done"
    /\ UNCHANGED <<nodes, edges, verdict, rewrites, runs, last, scopes0>>

\* the pass is run once more
Rerun ==
    /\ phase = "done"
    /\ runs < MaxRuns
    /\ phase' = "scan"
    /\ runs' = runs + 1
    /\ verdict' = [n \in MapEntries(nodes) |-> "unchecked"]
    /\ UNCHANGED <<nodes, edges, rewrites, last, scopes0>>

Next ==
    \/ \E s \in DOMAIN nodes : Check(s)
    \/ \E s \in DOMAIN nodes : Rewrite(s)
    \/ Finish
    \/ Rerun

Spec == Init /\ [][Next]_vars

(***************************************************************************)
(* What the properties below talk about.                                   *)
(***************************************************************************)
\* the map scopes the pass manager has a verdict for
Checked == {s \in DOMAIN verdict : verdict[s] # "unchecked"}

Accepted == {s \in DOMAIN verdict : verdict[s] = "True"}

\* the memlets can_be_applied reads for the candidate s
Reads(s) == out_edges(edges, s)

Writes(s) == in_edges(edges, exit_node(nodes, s))

\* a bare symbol, or one symbol plus an integer constant
UnitAffine(e) ==
    /\ e.cii = 0 /\ e.cij = 0
    /\ \/ e.ci = 1 /\ e.cj = 0
       \/ e.ci = 0 /\ e.cj = 1

\* exactly one element in every dimension
Singleton(desc) == \A k \in 1..Len(desc.shape) : desc.shape[k] = 1

\* the symbols an access refers to
Referenced(sub) == UNION {free_symbols(sub.dims[k].rb) : k \in 1..Len(sub.dims)}

\* a read that the stencil geometry is about
GeometryRead(e) ==
    /\ e.data.data # "None"
    /\ arrays[e.data.data].kind \in {"Array", "View"}
    /\ ~Singleton(arrays[e.data.data])

SomeDimNot(sub, P(_)) == \E k \in 1..Len(sub.dims) : ~P(sub.dims[k].rb)

(***************************************************************************)
(* C1: can_be_applied returns False for every candidate in which some      *)
(* dimension of a read of a non-singleton Array/View, or of a write to an  *)
(* Array/View, is neither a bare symbol nor one symbol plus an integer     *)
(* constant (2*i + 1, i*i + 1, i*j, i + j, ...).                           *)
(***************************************************************************)
C1_NonAffineRejected ==
    \A s \in Checked :
        (\/ \E k \in 1..Len(Reads(s)) :
                GeometryRead(Reads(s)[k]) /\ SomeDimNot(Reads(s)[k].data.subset, UnitAffine)
         \/ \E k \in 1..Len(Writes(s)) :
                /\ arrays[Writes(s)[k].data.data].kind \in {"Array", "View"}
                /\ SomeDimNot(Writes(s)[k].data.subset, UnitAffine))
        => verdict[s] = "False"

(***************************************************************************)
(* C2: in every accepted candidate the symbols referenced by a read (of    *)
(* other than a Scalar or a singleton) and by a write are exactly the      *)
(* parameters of the map.                                                  *)
(***************************************************************************)
C2_CoverageExact ==
    \A s \in Accepted :
        /\ \A k \in 1..Len(Reads(s)) :
              (/\ Reads(s)[k].data.data # "None"
               /\ arrays[Reads(s)[k].data.data].kind # "Scalar"
               /\ ~Singleton(arrays[Reads(s)[k].data.data]))
              => Referenced(Reads(s)[k].data.subset) = SeqToSet(nodes[s].params)
        /\ \A k \in 1..Len(Writes(s)) :
              Referenced(Writes(s)[k].data.subset) = SeqToSet(nodes[s].params)

(***************************************************************************)
(* C3: a candidate is accepted only if some one array is read by two       *)
(* accesses that differ by a non-zero integer in some dimension.           *)
(***************************************************************************)
C3_StencilOnOneArray ==
    \A s \in Accepted :
        \E k, l \in 1..Len(Reads(s)) :
            /\ Reads(s)[k].data.data # "None"
            /\ Reads(s)[k].data.data = Reads(s)[l].data.data
            /\ OffsetNonZero(Reads(s)[l].data.subset, Reads(s)[k].data.subset)

(***************************************************************************)
(* C4: can_be_applied returns False for every candidate with a write       *)
(* carrying a write-conflict resolution.                                   *)
(***************************************************************************)
C4_WcrRejected ==
    \A s \in Checked :
        (\E k \in 1..Len(Writes(s)) : Writes(s)[k].data.wcr) => verdict[s] = "False"

ClearWcr(Ed) == [k \in 1..Len(Ed) |-> [Ed[k] EXCEPT !.data.wcr = FALSE]]

\* a rejected candidate that only its wcr keeps from being accepted
C4_Witness ==
    \E s \in Checked :
        /\ verdict[s] = "False"
        /\ \E k \in 1..Len(Writes(s)) : Writes(s)[k].data.wcr
        /\ can_be_applied(nodes, ClearWcr(edges), s)

(***************************************************************************)
(* C5: after a completed apply, for every parameter p with a derived       *)
(* offset, each rewritten output expression that attained the minimum      *)
(* evaluates to 0 at the lower bound of p.                                 *)
(***************************************************************************)
C5_MinimumBecomesZero ==
    last.status = "completed" =>
        \A k \in 1..Len(last.params) :
            last.offsets[k].has =>
                \A q \in 1..Len(last.touts) :
                    \A d \in 1..Len(last.touts[q].data.subset.dims) :
                        LET p == last.params[k]
                            lo == last.range[k][1]
                            before == Subs(last.touts[q].data.subset.dims[d].rb, p, lo)
                            after == Subs(nodes[last.stencil].code[last.touts[q].src_conn]
                                            .subset.dims[d].rb, p, lo)
                        IN  (/\ p \in free_symbols(last.touts[q].data.subset.dims[d].rb)
                             /\ IsNumber(before)
                             /\ before.c = last.offsets[k].v)
                            => (IsNumber(after) /\ after.c = 0)

(***************************************************************************)
(* C6: after a completed apply every node that fed the map entry an array  *)
(* the tasklet read is connected to the stencil node's connector for that  *)
(* array with the whole array, every node the map exit fed likewise, and   *)
(* everything outside the removed scope is as it was.                      *)
(***************************************************************************)
C6_Reconnected ==
    last.status = "completed" =>
        LET sid == last.stencil
            exit == exit_node(last.nodes, last.entry)
            read == {last.tins[k].data.data : k \in 1..Len(last.tins)}
            written == {last.touts[k].data.data : k \in 1..Len(last.touts)}
            outside(e) == e.src \notin last.scope /\ e.dst \notin last.scope
            old(e) == e.src # sid /\ e.dst # sid
        IN  /\ \A e \in SeqToSet(in_edges(last.edges, last.entry)) :
                  e.data.data \in read =>
                      \E f \in SeqToSet(edges) :
                          /\ f.src = e.src /\ f.dst = sid
                          /\ f.dst_conn = StencilConn(e.data.data)
                          /\ f.data = from_array(e.data.data)
            /\ \A e \in SeqToSet(out_edges(last.edges, exit)) :
                  e.data.data \in written =>
                      \E f \in SeqToSet(edges) :
                          /\ f.src = sid /\ f.dst = e.dst
                          /\ f.src_conn = StencilConn(e.data.data)
                          /\ f.data = from_array(e.data.data)
            /\ \A n \in DOMAIN last.nodes \ last.scope :
                  n \in DOMAIN nodes /\ nodes[n] = last.nodes[n]
            /\ SelectSeq(edges, old) = SelectSeq(last.edges, outside)

(***************************************************************************)
(* C7: the 1-D scope over i in [0, N-1] that reads one array at i-1, i and *)
(* i+1 and writes another at i, without wcr, is accepted; apply derives    *)
(* offset 0, rewrites the reads to -1, 0, 1 and the write to 0, and the    *)
(* stencil node has one input and one output connector, both mapped        *)
(* [True], the output one with boundary condition 'shrink'.                *)
(***************************************************************************)
IsScenario(params, range, ins, outs) ==
    /\ params = <<"i">>
    /\ range = << <<0, N - 1>> >>
    /\ Len(ins) = 3
    /\ {ins[k].data : k \in 1..3} = {At("A", I(0 - 1)), At("A", I(0)), At("A", I(1))}
    /\ Len(outs) = 1
    /\ outs[1].data \in {At("B", I(0)), At("V", I(0))}

C7_Scenario ==
    /\ \A s \in Checked :
          IsScenario(nodes[s].params, nodes[s].range, Reads(s), Writes(s))
          => verdict[s] = "True"
    /\ (last.status # "none" /\ IsScenario(last.params, last.range, last.tins, last.touts))
       => /\ last.status = "completed"
          /\ last.offsets = <<[has |-> TRUE, v |-> 0]>>
          /\ LET st == nodes[last.stencil]
                 ic == StencilConn("A")
                 oc == StencilConn(last.touts[1].data.data)
             IN  /\ \A k \in 1..3 :
                       st.code[last.tins[k].dst_conn] =
                           [conn |-> ic, indexed |-> TRUE,
                            subset |-> Range(<<Dim(Const(last.tins[k].data.subset.dims[1].rb.c), 0)>>)]
                 /\ st.code[last.touts[1].src_conn] =
                       [conn |-> oc, indexed |-> TRUE, subset |-> Range(<<Dim(Const(0), 0)>>)]
                 /\ {e.dst_conn : e \in SeqToSet(in_edges(edges, last.stencil))} = {ic}
                 /\ {e.src_conn : e \in SeqToSet(out_edges(edges, last.stencil))} = {oc}
                 /\ DOMAIN st.itmapping = {ic, oc}
                 /\ st.itmapping[ic] = <<TRUE>> /\ st.itmapping[oc] = <<TRUE>>
                 /\ DOMAIN st.boundary = {oc}
                 /\ st.boundary[oc] = "shrink"

\* the scenario has been rewritten
C7_Witness ==
    /\ last.status = "completed"
    /\ IsScenario(last.params, last.range, last.tins, last.touts)

(***************************************************************************)
(* C8: whenever apply ends with an exception the graph is exactly as it    *)
(* was when apply was called, and the pass has stopped with the error.     *)
(***************************************************************************)
C8_AbortLeavesGraph ==
    last.status \notin {"none", "completed"} =>
        /\ phase = "failed"
        /\ nodes = last.nodes
        /\ edges = last.edges

(***************************************************************************)
(* C9: reads of an array with one element in every dimension (shape [1],   *)
(* [1,1], ...) are skipped: the verdict is the verdict of the candidate    *)
(* without them.                                                           *)
(***************************************************************************)
WithoutSingletonReads(Ed, s) ==
    SelectSeq(Ed, LAMBDA e :
        ~(/\ e.src = s
          /\ e.data.data # "None"
          /\ arrays[e.data.data].kind \in {"Array", "View"}
          /\ Singleton(arrays[e.data.data])))

C9_SingletonsSkipped ==
    \A s \in Checked :
        verdict[s] = "True" <=> can_be_applied(nodes, WithoutSingletonReads(edges, s), s)

(***************************************************************************)
(* C10: every completed apply removes the three nodes of the scope and     *)
(* adds one stencil node, so there is one map scope less per rewrite; the  *)
(* loop makes at most as many rewrites as there were map scopes and always *)
(* reaches a fixed point, after which a further run changes nothing.       *)
(***************************************************************************)
RewriteShrinks ==
    last.status = "completed" =>
        /\ Cardinality(last.scope) = 3
        /\ last.stencil \notin DOMAIN last.nodes
        /\ DOMAIN nodes = (DOMAIN last.nodes \ last.scope) \cup {last.stencil}
        /\ nodes[last.stencil].type = "Stencil"
        /\ Cardinality(MapEntries(nodes)) = Cardinality(MapEntries(last.nodes)) - 1

RewritesBounded ==
    /\ rewrites + Cardinality(MapEntries(nodes)) = scopes0
    /\ rewrites <= scopes0

\* C10 as stated: the loop shrinks the graph with every rewrite and never
\* stops anywhere but at its fixed point, that is, never with an error
C10_AlwaysFixedPoint ==
    /\ RewriteShrinks
    /\ RewritesBounded
    /\ phase # "failed"
====
